---- MODULE Spec2Model ----
(***************************************************************************)
(* Model of src/meraki.py: a Flask application whose endpoint              *)
(* GET /api/meraki-data chains four GET calls to the Meraki REST API       *)
(* (organizations, networks, devices, clients) and tallies the result.     *)
(*                                                                         *)
(* Python values are tagged records: None is [tag |-> "None"], a list is   *)
(* [tag |-> "list", items |-> <<...>>].  A dict is the sequence of its     *)
(* <<key, value>> pairs in insertion order (the order Python's dict        *)
(* keeps).  An f-string is the sequence of its parts.                      *)
(*                                                                         *)
(* The upstream API is the environment: every call draws the outcome of    *)
(* its single HTTP attempt (a transport failure, or a status with a JSON   *)
(* body) from a small set.  Each request in flight has its own copy of     *)
(* the handler's locals; the handler blocks at each upstream call, and     *)
(* those are the points where concurrently served requests interleave.     *)
(***************************************************************************)
EXTENDS Integers, Sequences, FiniteSets, TLC

\* ------------------------------------------------------------- bounds
MaxDevices == 3
MaxClients == 2

\* Requests the server may have in flight at once (Flask's threaded server).
Requests == {1, 2}

\* ------------------------------------------------------ Python values
None == [tag |-> "None"]
PyList(s) == [tag |-> "list", items |-> s]
Raised(exc) == [tag |-> "raise", exc |-> exc]
Unbound == [tag |-> "unbound"]

\* Python truthiness of a helper's return value: None and [] are falsy.
Truthy(v) == v.tag = "list" /\ Len(v.items) > 0

\* len(v) for a list
PyLen(v) == Len(v.items)

\* mutant of First: v[-1]
Last(v) == v.items[Len(v.items)]

\* v[0]
First(v) == v.items[1]

\* record.get(field, default)
RecGet(rec, field, default) == IF field \in DOMAIN rec THEN rec[field] ELSE default

\* dict.get(k, default) on an insertion-ordered dict
DictGet(d, k, default) ==
    IF \E i \in 1..Len(d) : d[i][1] = k
    THEN d[CHOOSE i \in 1..Len(d) : d[i][1] = k][2]
    ELSE default

\* mutant of DictSet: a new key goes first
DictSetFront(d, k, v) ==
    IF \E i \in 1..Len(d) : d[i][1] = k
    THEN [d EXCEPT ![CHOOSE i \in 1..Len(d) : d[i][1] = k] = <<k, v>>]
    ELSE <<(<<k, v>>)>> \o d

\* d[k] = v : an existing key keeps its position, a new key goes last
DictSet(d, k, v) ==
    IF \E i \in 1..Len(d) : d[i][1] = k
    THEN [d EXCEPT ![CHOOSE i \in 1..Len(d) : d[i][1] = k] = <<k, v>>]
    ELSE Append(d, <<k, v>>)

\* list(d.keys()), list(d.values())
DictKeys(d) == [i \in 1..Len(d) |-> d[i][1]]
DictValues(d) == [i \in 1..Len(d) |-> d[i][2]]

SeqsUpTo(S, n) == UNION {[1..k -> S] : k \in 0..n}

\* ------------------------------------------------------------ upstream
OrgA == [id |-> "org-1", name |-> "Acme"]
OrgB == [id |-> "org-2", name |-> "Globex"]
NetA == [id |-> "N_1", name |-> "HQ"]
NetB == [id |-> "N_2", name |-> "Branch"]

DeviceRecords ==
    { [name |-> "ap-1", status |-> "online", model |-> "MR33"],
      [name |-> "sw-1", status |-> "offline", model |-> "MS220"],
      [name |-> "x-1", model |-> "Unknown"],
      [serial |-> "Q2XX-0001"] }

ClientRecords == { [mac |-> "aa:01"], [id |-> "k2", usage |-> 7] }

TransportFailures == {"ConnectionError", "Timeout"}
HttpStatuses == {200, 404, 500}

\* The outcome of one HTTP attempt whose successful body is drawn from bodies.
Outcomes(bodies) ==
    { [kind |-> k, status |-> 0, body |-> <<>>] : k \in TransportFailures }
    \cup { [kind |-> "response", status |-> s, body |-> <<>>] : s \in HttpStatuses \ {200} }
    \cup { [kind |-> "response", status |-> 200, body |-> b] : b \in bodies }

VARIABLES
    MERAKI_API_KEY, MERAKI_API_BASE_URL, HEADERS,
    pc, calls, response,
    organizations, organization_id, organization_name,
    networks, network_id, network_name,
    devices, clients,
    device_names, device_statuses, client_count, device_type_counts

config == <<MERAKI_API_KEY, MERAKI_API_BASE_URL, HEADERS>>
orgLocals == <<organizations, organization_id, organization_name>>
netLocals == <<networks, network_id, network_name>>
tallyLocals == <<device_names, device_statuses, client_count, device_type_counts>>
vars == <<config, pc, calls, response, orgLocals, netLocals, devices, clients, tallyLocals>>

\* Two requests in flight at once: the bodies are drawn from smaller sets.
Concurrent == \A r \in Requests : pc[r] # "off"

OrgBodies ==
    IF Concurrent THEN {<<>>, <<OrgA>>, <<OrgB, OrgA>>}
    ELSE {<<>>, <<OrgA>>, <<OrgB>>, <<OrgA, OrgB>>, <<OrgB, OrgA>>}
NetBodies ==
    IF Concurrent THEN {<<>>, <<NetA>>, <<NetB, NetA>>}
    ELSE {<<>>, <<NetA>>, <<NetB>>, <<NetA, NetB>>, <<NetB, NetA>>}
DeviceBodies ==
    IF Concurrent
    THEN LET ap == [name |-> "ap-1", status |-> "online", model |-> "MR33"]
             sw == [name |-> "sw-1", status |-> "offline", model |-> "MS220"]
         IN  {<<>>, <<ap>>, <<ap, sw>>, <<sw, ap, sw>>}
    ELSE SeqsUpTo(DeviceRecords, MaxDevices)
ClientBodies ==
    IF Concurrent THEN {<<>>, <<[mac |-> "aa:01"]>>}
    ELSE SeqsUpTo(ClientRecords, MaxClients)

\* ---------------------------------------------------------- API client
DefaultTimespan == 3600
DayTimespan == 86400

\* requests.exceptions.RequestException and the subclasses raised here
RequestException == {"ConnectionError", "Timeout", "HTTPError"}

\* mutant of RaisesForStatus: only a 5xx status raises
RaisesForServerError(status) == 500 <= status /\ status < 600

\* response.raise_for_status(): HTTPError for a 4xx or 5xx status
RaisesForStatus(status) == 400 <= status /\ status < 600

\* try: requests.get(); raise_for_status(); return response.json()
\* except RequestException: return None
Fetch(o) ==
    LET exc == IF o.kind \in TransportFailures THEN o.kind
               ELSE IF RaisesForStatus(o.status) THEN "HTTPError"
               ELSE "none"
    IN  IF exc = "none" THEN PyList(o.body)
        ELSE IF exc \in RequestException THEN None
        ELSE Raised(exc)

Call(op, url, params, o) ==
    [op |-> op, url |-> url, headers |-> HEADERS, params |-> params,
     outcome |-> o, result |-> Fetch(o)]

get_organizations(o) ==
    Call("organizations", <<MERAKI_API_BASE_URL, "/organizations">>, <<>>, o)

get_networks(oid, o) ==
    Call("networks", <<MERAKI_API_BASE_URL, "/organizations/", oid, "/networks">>, <<>>, o)

get_network_devices(nid, o) ==
    Call("devices", <<MERAKI_API_BASE_URL, "/networks/", nid, "/devices">>, <<>>, o)

get_network_clients(nid, timespan, o) ==
    Call("clients", <<MERAKI_API_BASE_URL, "/networks/", nid, "/clients">>,
         [timespan |-> timespan], o)

\* ------------------------------------------------------------- handler
\* jsonify({"error": message}), status
ErrorResponse(status, message) == [status |-> status, body |-> [error |-> message]]

\* An exception that leaves the view function: Flask answers 500.
InternalServerError == [status |-> 500, body |-> [html |-> "Internal Server Error"]]

CouldNotFetchOrganizations ==
    <<"Could not fetch organizations. Check API key and network connectivity.">>
NoOrganizationsFound == <<"No Meraki organizations found.">>
\* mutant of NoNetworksFound: the f prefix is missing, nothing is substituted
NoNetworksFoundUnformatted(name) ==
    <<"No networks found for organization {organization_name}.">>
NoNetworksFound(name) == <<"No networks found for organization ", name, ".">>

\* mutant of NotOrganizations: `if organizations is None:`
OrganizationsIsNone(v) == v = None
\* mutant of NotOrganizations: `if organizations == []:`
OrganizationsIsEmptyList(v) == v.tag = "list" /\ Len(v.items) = 0
\* the first `if not organizations:` of the handler
NotOrganizations(v) == ~Truthy(v)
\* the second `if not organizations:` of the handler
NoOrganizations(v) == ~Truthy(v)
\* `if not networks:`
NotNetworks(v) == ~Truthy(v)

\* [device.get('name', 'N/A') for device in devices] if devices else []
DeviceNames(devs) ==
    IF Truthy(devs)
    THEN [i \in 1..PyLen(devs) |-> RecGet(devs.items[i], "name", "N/A")]
    ELSE <<>>

\* [device.get('status', 'N/A') for device in devices] if devices else []
DeviceStatuses(devs) ==
    IF Truthy(devs)
    THEN [i \in 1..PyLen(devs) |-> RecGet(devs.items[i], "status", "N/A")]
    ELSE <<>>

\* mutant of ClientCount: len(clients) - 1 if clients else 0
ClientCountOffByOne(cl) == IF Truthy(cl) THEN PyLen(cl) - 1 ELSE 0

\* len(clients) if clients else 0
ClientCount(cl) == IF Truthy(cl) THEN PyLen(cl) ELSE 0

\* len(devices) if devices else 0
DeviceCount(devs) == IF Truthy(devs) THEN PyLen(devs) ELSE 0

\* mutant of NewDict: one module-level dict, which still holds what the other
\* request tallied
NewDictShared(r) ==
    LET q == CHOOSE q \in Requests : q # r
    IN  IF pc[q] = "done" /\ response[q].status = 200
        THEN device_type_counts[q] ELSE <<>>

\* device_type_counts = {} : a fresh dict local to the request
NewDict(r) == <<>>

\* mutant of TallyStep: device_type_counts[device_type] = 1
TallyStepNoIncrement(d, device) ==
    DictSet(d, RecGet(device, "model", "Unknown"), 1)

\* device_type_counts[device_type] = device_type_counts.get(device_type, 0) + 1
TallyStep(d, device) ==
    LET device_type == RecGet(device, "model", "Unknown")
    IN  DictSet(d, device_type, DictGet(d, device_type, 0) + 1)

RECURSIVE TallyLoop(_, _, _)
\* for device in devices: ... , from the i-th device on
TallyLoop(d, items, i) ==
    IF i > Len(items) THEN d
    ELSE TallyLoop(TallyStep(d, items[i]), items, i + 1)

\* the dict after `if devices: for device in devices: ...`
DeviceTypeCounts(r, devs) ==
    IF Truthy(devs) THEN TallyLoop(NewDict(r), devs.items, 1) ELSE NewDict(r)

\* the dashboard_data dict, as jsonify sends it (status 200)
DashboardData(oname, nname, devs, cl, ccount, counts) ==
    [status |-> 200,
     body |-> [organizationName |-> oname,
               networkName |-> nname,
               deviceCount |-> DeviceCount(devs),
               clientCount |-> ccount,
               deviceTypes |-> DictKeys(counts),
               deviceTypeCounts |-> DictValues(counts),
               devices |-> devs,
               clients |-> cl]]

\* A request arrives at /api/meraki-data: a new invocation, all locals unbound.
Accept(r) ==
    /\ pc[r] = "done"
    /\ pc' = [pc EXCEPT ![r] = "organizations"]
    /\ calls' = [calls EXCEPT ![r] = <<>>]
    /\ response' = [response EXCEPT ![r] = Unbound]
    /\ organizations' = [organizations EXCEPT ![r] = Unbound]
    /\ organization_id' = [organization_id EXCEPT ![r] = Unbound]
    /\ organization_name' = [organization_name EXCEPT ![r] = Unbound]
    /\ networks' = [networks EXCEPT ![r] = Unbound]
    /\ network_id' = [network_id EXCEPT ![r] = Unbound]
    /\ network_name' = [network_name EXCEPT ![r] = Unbound]
    /\ devices' = [devices EXCEPT ![r] = Unbound]
    /\ clients' = [clients EXCEPT ![r] = Unbound]
    /\ device_names' = [device_names EXCEPT ![r] = Unbound]
    /\ device_statuses' = [device_statuses EXCEPT ![r] = Unbound]
    /\ client_count' = [client_count EXCEPT ![r] = Unbound]
    /\ device_type_counts' = [device_type_counts EXCEPT ![r] = Unbound]
    /\ UNCHANGED config

\* organizations = get_organizations() and the two checks that follow it
CallOrganizations(r) ==
    /\ pc[r] = "organizations"
    /\ \E o \in Outcomes(OrgBodies) :
        LET call == get_organizations(o)
            v == call.result
        IN  /\ calls' = [calls EXCEPT ![r] = Append(@, call)]
            /\ IF v.tag = "raise"
               THEN /\ response' = [response EXCEPT ![r] = InternalServerError]
                    /\ pc' = [pc EXCEPT ![r] = "done"]
                    /\ UNCHANGED orgLocals
               ELSE /\ organizations' = [organizations EXCEPT ![r] = v]
                    /\ IF NotOrganizations(v)
                       THEN /\ response' = [response EXCEPT ![r] =
                                   ErrorResponse(500, CouldNotFetchOrganizations)]
                            /\ pc' = [pc EXCEPT ![r] = "done"]
                            /\ UNCHANGED <<organization_id, organization_name>>
                       ELSE IF NoOrganizations(v)
                       THEN /\ response' = [response EXCEPT ![r] =
                                   ErrorResponse(404, NoOrganizationsFound)]
                            /\ pc' = [pc EXCEPT ![r] = "done"]
                            /\ UNCHANGED <<organization_id, organization_name>>
                       ELSE /\ organization_id' =
                                   [organization_id EXCEPT ![r] = First(v).id]
                            /\ organization_name' =
                                   [organization_name EXCEPT ![r] = First(v).name]
                            /\ pc' = [pc EXCEPT ![r] = "networks"]
                            /\ UNCHANGED response
    /\ UNCHANGED <<config, netLocals, devices, clients, tallyLocals>>

\* networks = get_networks(organization_id) and the check that follows it
CallNetworks(r) ==
    /\ pc[r] = "networks"
    /\ \E o \in Outcomes(NetBodies) :
        LET call == get_networks(organization_id[r], o)
            v == call.result
        IN  /\ calls' = [calls EXCEPT ![r] = Append(@, call)]
            /\ IF v.tag = "raise"
               THEN /\ response' = [response EXCEPT ![r] = InternalServerError]
                    /\ pc' = [pc EXCEPT ![r] = "done"]
                    /\ UNCHANGED netLocals
               ELSE /\ networks' = [networks EXCEPT ![r] = v]
                    /\ IF NotNetworks(v)
                       THEN /\ response' = [response EXCEPT ![r] =
                                   ErrorResponse(404, NoNetworksFound(organization_name[r]))]
                            /\ pc' = [pc EXCEPT ![r] = "done"]
                            /\ UNCHANGED <<network_id, network_name>>
                       ELSE /\ network_id' = [network_id EXCEPT ![r] = First(v).id]
                            /\ network_name' = [network_name EXCEPT ![r] = First(v).name]
                            /\ pc' = [pc EXCEPT ![r] = "devices"]
                            /\ UNCHANGED response
    /\ UNCHANGED <<config, orgLocals, devices, clients, tallyLocals>>

\* devices = get_network_devices(network_id)
CallDevices(r) ==
    /\ pc[r] = "devices"
    /\ \E o \in Outcomes(DeviceBodies) :
        LET call == get_network_devices(network_id[r], o)
            v == call.result
        IN  /\ calls' = [calls EXCEPT ![r] = Append(@, call)]
            /\ IF v.tag = "raise"
               THEN /\ response' = [response EXCEPT ![r] = InternalServerError]
                    /\ pc' = [pc EXCEPT ![r] = "done"]
                    /\ UNCHANGED devices
               ELSE /\ devices' = [devices EXCEPT ![r] = v]
                    /\ pc' = [pc EXCEPT ![r] = "clients"]
                    /\ UNCHANGED response
    /\ UNCHANGED <<config, orgLocals, netLocals, clients, tallyLocals>>

\* clients = get_network_clients(network_id, timespan=86400), the processing
\* of the two lists, and return jsonify(dashboard_data)
CallClients(r) ==
    /\ pc[r] = "clients"
    /\ \E o \in Outcomes(ClientBodies) :
        LET call == get_network_clients(network_id[r], DayTimespan, o)
            v == call.result
            counts == DeviceTypeCounts(r, devices[r])
        IN  /\ calls' = [calls EXCEPT ![r] = Append(@, call)]
            /\ pc' = [pc EXCEPT ![r] = "done"]
            /\ IF v.tag = "raise"
               THEN /\ response' = [response EXCEPT ![r] = InternalServerError]
                    /\ UNCHANGED <<clients, tallyLocals>>
               ELSE /\ clients' = [clients EXCEPT ![r] = v]
                    /\ device_names' = [device_names EXCEPT ![r] = DeviceNames(devices[r])]
                    /\ device_statuses' =
                           [device_statuses EXCEPT ![r] = DeviceStatuses(devices[r])]
                    /\ client_count' = [client_count EXCEPT ![r] = ClientCount(v)]
                    /\ device_type_counts' = [device_type_counts EXCEPT ![r] = counts]
                    /\ response' = [response EXCEPT ![r] =
                           DashboardData(organization_name[r], network_name[r],
                                         devices[r], v, ClientCount(v), counts)]
    /\ UNCHANGED <<config, orgLocals, netLocals, devices>>

\* ------------------------------------------------------- specifications
\* Module load: the key from the environment or the placeholder, the base
\* URL and the header set.
Startup ==
    /\ \E env \in {None, [tag |-> "str", value |-> "6bec40cf957de430a6f1f2baa056b99a4fac9ea0"]} :
          MERAKI_API_KEY = IF env = None THEN "YOUR_MERAKI_API_KEY" ELSE env.value
    /\ MERAKI_API_BASE_URL = "https://api.meraki.com/api/v1"
    /\ HEADERS = ("X-Cisco-Meraki-API-Key" :> MERAKI_API_KEY)
                   @@ ("Content-Type" :> "application/json")

Locals(start) ==
    /\ pc = start
    /\ calls = [r \in Requests |-> <<>>]
    /\ response = [r \in Requests |-> Unbound]
    /\ organizations = [r \in Requests |-> Unbound]
    /\ organization_id = [r \in Requests |-> Unbound]
    /\ organization_name = [r \in Requests |-> Unbound]
    /\ networks = [r \in Requests |-> Unbound]
    /\ network_id = [r \in Requests |-> Unbound]
    /\ network_name = [r \in Requests |-> Unbound]
    /\ devices = [r \in Requests |-> Unbound]
    /\ clients = [r \in Requests |-> Unbound]
    /\ device_names = [r \in Requests |-> Unbound]
    /\ device_statuses = [r \in Requests |-> Unbound]
    /\ client_count = [r \in Requests |-> Unbound]
    /\ device_type_counts = [r \in Requests |-> Unbound]

\* One request at a time, with the wide input sets.
Init == Startup /\ Locals([r \in Requests |-> IF r = 1 THEN "organizations" ELSE "off"])

\* Two requests in flight at once.
InitConc == Startup /\ Locals([r \in Requests |-> "organizations"])

Next ==
    \E r \in Requests :
        \/ Accept(r)
        \/ CallOrganizations(r)
        \/ CallNetworks(r)
        \/ CallDevices(r)
        \/ CallClients(r)

Spec == Init /\ [][Next]_vars
SpecConc == InitConc /\ [][Next]_vars

\* ---------------------------------------------------- claim vocabulary
Done(r) == pc[r] = "done"
Ok(r) == Done(r) /\ response[r].status = 200
NCalls(r) == Len(calls[r])

\* what the upstream handed to the i-th call of request r
Failed(o) == o.kind \in TransportFailures \/ (400 <= o.status /\ o.status <= 599)
Unavailable(r, i) == Failed(calls[r][i].outcome)
Body(r, i) == calls[r][i].outcome.body
UnavailableOrEmpty(r, i) == Unavailable(r, i) \/ Body(r, i) = <<>>

\* the devices and clients lists the upstream returned (empty when unavailable)
SentDevices(r) == IF Unavailable(r, 3) THEN <<>> ELSE Body(r, 3)
SentClients(r) == IF Unavailable(r, 4) THEN <<>> ELSE Body(r, 4)
ModelOf(device) == IF "model" \in DOMAIN device THEN device.model ELSE "Unknown"

RECURSIVE Sum(_)
Sum(s) == IF s = <<>> THEN 0 ELSE Head(s) + Sum(Tail(s))

\* C1: in every 200 response the entries of deviceTypeCounts add up to
\* deviceCount, and deviceTypes is as long as deviceTypeCounts.
C1_CountsAddUp ==
    \A r \in Requests :
        Ok(r) =>
            /\ Sum(response[r].body.deviceTypeCounts) = response[r].body.deviceCount
            /\ Len(response[r].body.deviceTypes) = Len(response[r].body.deviceTypeCounts)

\* a 200 response over three devices of two models
C1_Witness ==
    \E r \in Requests :
        /\ Ok(r)
        /\ Len(SentDevices(r)) = 3
        /\ response[r].body.deviceCount = 3
        /\ Len(response[r].body.deviceTypeCounts) = 2

\* C2: when the organizations fetch is unavailable or returns an empty list,
\* the response is 500 with an error field and the organizations call is the
\* only upstream call of the request.
C2_NoOrganizations ==
    \A r \in Requests :
        (NCalls(r) >= 1 /\ UnavailableOrEmpty(r, 1)) =>
            /\ Done(r)
            /\ response[r].status = 500
            /\ "error" \in DOMAIN response[r].body
            /\ NCalls(r) = 1

\* the organizations call timed out and the request was answered
C2_Witness ==
    \E r \in Requests :
        /\ Done(r)
        /\ NCalls(r) = 1
        /\ calls[r][1].outcome.kind = "Timeout"
        /\ response[r].status = 500

\* C3: when the organizations fetch returns a non-empty list and the networks
\* fetch is unavailable or empty, the response is 404, its error names the
\* organization at index 0, and no devices or clients call is made.
C3_NoNetworks ==
    \A r \in Requests :
        (NCalls(r) >= 2 /\ UnavailableOrEmpty(r, 2)) =>
            /\ ~UnavailableOrEmpty(r, 1)
            /\ Done(r)
            /\ response[r].status = 404
            /\ "error" \in DOMAIN response[r].body
            /\ \E k \in 1..Len(response[r].body.error) :
                   response[r].body.error[k] = Body(r, 1)[1].name
            /\ NCalls(r) = 2

\* two organizations were returned and the networks list of the first is empty
C3_Witness ==
    \E r \in Requests :
        /\ Done(r)
        /\ NCalls(r) = 2
        /\ Body(r, 1) = <<OrgB, OrgA>>
        /\ ~Unavailable(r, 2)
        /\ Body(r, 2) = <<>>
        /\ response[r].status = 404

\* C4: when the devices fetch is unavailable after organization and network
\* resolution succeeded, the response is 200 with deviceCount 0, empty
\* deviceTypes and deviceTypeCounts, and clientCount the number of client
\* records returned (0 when the clients fetch is unavailable too).
C4_DevicesUnavailable ==
    \A r \in Requests :
        (Done(r) /\ NCalls(r) >= 3 /\ Unavailable(r, 3)) =>
            /\ NCalls(r) = 4
            /\ response[r].status = 200
            /\ response[r].body.deviceCount = 0
            /\ response[r].body.deviceTypes = <<>>
            /\ response[r].body.deviceTypeCounts = <<>>
            /\ response[r].body.clientCount = Len(SentClients(r))

\* the devices fetch failed and two client records were returned
C4_Witness ==
    \E r \in Requests :
        /\ Done(r)
        /\ NCalls(r) = 4
        /\ Unavailable(r, 3)
        /\ ~Unavailable(r, 4)
        /\ Len(Body(r, 4)) = 2
        /\ response[r].status = 200

\* C5: in every 200 response deviceTypes lists the distinct models of the
\* devices (a device without a model counts as "Unknown") in first-seen
\* order without duplicates, and deviceTypeCounts[i] is the number of devices
\* of model deviceTypes[i]; MR33, MR33, MS220 give [MR33, MS220] and [2, 1].
C5_GroupByModel ==
    \A r \in Requests :
        Ok(r) =>
            LET devs == SentDevices(r)
                types == response[r].body.deviceTypes
                counts == response[r].body.deviceTypeCounts
                FirstSeen(m) ==
                    CHOOSE i \in 1..Len(devs) :
                        /\ ModelOf(devs[i]) = m
                        /\ \A j \in 1..(i - 1) : ModelOf(devs[j]) # m
            IN  /\ \A i, j \in 1..Len(types) : i # j => types[i] # types[j]
                /\ {types[i] : i \in 1..Len(types)}
                       = {ModelOf(devs[i]) : i \in 1..Len(devs)}
                /\ \A i, j \in 1..Len(types) :
                       i < j => FirstSeen(types[i]) < FirstSeen(types[j])
                /\ Len(counts) = Len(types)
                /\ \A i \in 1..Len(types) :
                       counts[i] = Cardinality({k \in 1..Len(devs) :
                                                   ModelOf(devs[k]) = types[i]})
                /\ (Len(devs) = 3 /\ ModelOf(devs[1]) = "MR33"
                        /\ ModelOf(devs[2]) = "MR33" /\ ModelOf(devs[3]) = "MS220")
                       => (types = <<"MR33", "MS220">> /\ counts = <<2, 1>>)

\* a device without a model arrives between two devices of one model, after
\* a device of another
C5_Witness ==
    \E r \in Requests :
        /\ Ok(r)
        /\ Len(SentDevices(r)) = 3
        /\ ModelOf(SentDevices(r)[1]) = "MS220"
        /\ "model" \notin DOMAIN SentDevices(r)[2]
        /\ ModelOf(SentDevices(r)[3]) = "MS220"
        /\ response[r].body.deviceTypes = <<"MS220", "Unknown">>

\* C6: in every 200 response the devices and clients fields are lists as long
\* as deviceCount and clientCount, the empty list when the fetch was
\* unavailable.
C6_RawFieldsAreLists ==
    \A r \in Requests :
        Ok(r) =>
            /\ response[r].body.devices.tag = "list"
            /\ response[r].body.clients.tag = "list"
            /\ Len(response[r].body.devices.items) = response[r].body.deviceCount
            /\ Len(response[r].body.clients.items) = response[r].body.clientCount

C8_CallOrder ==
    \A r \in Requests :
        LET n == NCalls(r)
            ops == <<"organizations", "networks", "devices", "clients">>
        IN  /\ n <= 4
            /\ \A i \in 1..n : calls[r][i].op = ops[i]
            /\ pc[r] = "organizations" => n = 0
            /\ pc[r] = "networks" => n = 1
            /\ pc[r] = "devices" => n = 2
            /\ pc[r] = "clients" => n = 3
            /\ n >= 1 => calls[r][1].url = <<MERAKI_API_BASE_URL, "/organizations">>
            /\ n >= 2 =>
                   /\ ~UnavailableOrEmpty(r, 1)
                   /\ calls[r][2].url = <<MERAKI_API_BASE_URL, "/organizations/",
                                           Body(r, 1)[1].id, "/networks">>
            /\ n >= 3 =>
                   /\ ~UnavailableOrEmpty(r, 2)
                   /\ calls[r][3].url = <<MERAKI_API_BASE_URL, "/networks/",
                                           Body(r, 2)[1].id, "/devices">>
            /\ n >= 4 =>
                   /\ calls[r][4].url = <<MERAKI_API_BASE_URL, "/networks/",
                                           Body(r, 2)[1].id, "/clients">>
                   /\ calls[r][4].params = [timespan |-> 86400]
            /\ (Done(r) /\ n >= 3) => n = 4

\* all four calls were made, the lists held two entries each, and the devices
\* call was unavailable
C8_Witness ==
    \E r \in Requests :
        /\ Done(r)
        /\ NCalls(r) = 4
        /\ Body(r, 1) = <<OrgB, OrgA>>
        /\ Body(r, 2) = <<NetA, NetB>>
        /\ Unavailable(r, 3)

\* C9: two requests, however their steps interleave, that received the same
\* upstream results carry the same response, and no step changes the API
\* key, the base URL or the headers.
C9_NoSharedState ==
    /\ [](\A r1, r2 \in Requests :
              (Done(r1) /\ Done(r2) /\ calls[r1] = calls[r2])
                  => response[r1] = response[r2])
    /\ [][config' = config]_vars

\* both requests were answered 200 over the same non-empty devices list
C9_Witness ==
    /\ \A r \in Requests : Ok(r) /\ Len(SentDevices(r)) = 3
    /\ calls[1] = calls[2]

\* C10: a 404 is answered only when organizations were returned and the
\* networks fetch was unavailable or empty; "No Meraki organizations found."
\* is never answered, and an unavailable organizations fetch and an empty
\* organizations list get the same 500 response.
C10_SecondCheckDead ==
    \A r \in Requests :
        Done(r) =>
            /\ response[r].status = 404 =>
                   /\ NCalls(r) = 2
                   /\ ~UnavailableOrEmpty(r, 1)
                   /\ UnavailableOrEmpty(r, 2)
            /\ "error" \in DOMAIN response[r].body =>
                   response[r].body.error # <<"No Meraki organizations found.">>
            /\ UnavailableOrEmpty(r, 1) =>
                   response[r] =
                       [status |-> 500,
                        body |-> [error |-> <<"Could not fetch organizations. Check API key and network connectivity.">>]]

\* the organizations fetch succeeded with an empty list and 500 was answered
C10_Witness ==
    \E r \in Requests :
        /\ Done(r)
        /\ ~Unavailable(r, 1)
        /\ Body(r, 1) = <<>>
        /\ response[r].status = 500

====
